---- MODULE Spec2Model ----
(***************************************************************************)
(* Model of maidsafe_utilities' log module (src/src/log.rs): the four      *)
(* logger initialisers guarded by the process-wide INITIALISE_LOGGER Once, *)
(* and the RUST_LOG directive parser parse_loggers.                        *)
(*                                                                         *)
(* A Rust string is modelled as a sequence of one-character strings, so    *)
(* that split, trim and the level parse work on characters as the code     *)
(* does.                                                                   *)
(***************************************************************************)
EXTENDS Integers, Sequences, FiniteSets, TLC

VARIABLES
    \* ---- the initialisers ----
    once,         \* state of INITIALISE_LOGGER
    logger_set,   \* TRUE once a process logger is installed (log::set_logger)
    rust_log,     \* the RUST_LOG environment variable: [set, val]
    pc,           \* per thread: where it stands in its current initialiser call
    variant,      \* per thread: which initialiser it is calling
    result,       \* per thread: the local `result` of the call / its return value
    calls,        \* per thread: number of initialiser calls started
    after_ok,     \* per thread: the current call started after some call returned Ok
    body_runs,    \* number of times a call_once closure has been entered
    ok_count,     \* number of initialiser calls that returned Ok
    \* ---- parse_loggers ----
    p_input,      \* the argument of parse_loggers
    p_result,     \* its return value
    p_pc,         \* "start" before the call, "done" after it
    \* ---- the log message server's reader (test server_logging) ----
    wire,              \* bytes of the connection not yet returned by a read
    rcvd,              \* every byte the reads have returned so far
    read_buf,          \* read_buf
    search_frm_index,  \* search_frm_index
    log_msgs,          \* log_msgs
    r_pc,              \* "read", "scan", "done", or "panicked_" and the cause
    sent,              \* the record texts framed onto the connection, in order
    framed,            \* TRUE when the whole connection content is such frames
    reads,             \* number of reads that have returned bytes
    \* ---- the asynchronous sink ----
    s_calls,      \* levels of the log calls the logging thread has made
    s_next,       \* per producer: number of its next record
    s_queue,      \* records handed to the sink and not yet taken by its consumer
    s_writes,     \* the byte strings the consumer wrote, one per write call
    s_failed,     \* TRUE once a write to the sink has failed
    s_shut        \* "open", "draining" (shutdown called), "returned"

initVars == <<once, logger_set, rust_log, pc, variant, result, calls, after_ok,
              body_runs, ok_count>>
parseVars == <<p_input, p_result, p_pc>>
reasmVars == <<wire, rcvd, read_buf, search_frm_index, log_msgs, r_pc, sent, framed,
              reads>>
sinkVars == <<s_calls, s_next, s_queue, s_writes, s_failed, s_shut>>
vars == <<once, logger_set, rust_log, pc, variant, result, calls, after_ok,
          body_runs, ok_count, p_input, p_result, p_pc,
          wire, rcvd, read_buf, search_frm_index, log_msgs, r_pc, sent, framed,
          reads,
          s_calls, s_next, s_queue, s_writes, s_failed, s_shut>>

(***************************************************************************)
(* Bounds                                                                  *)
(***************************************************************************)
\* number of comma separated tokens of a generated directive string
MaxTokens == 3
\* number of threads calling the initialisers
NThreads == 2
\* number of initialiser calls one thread makes
MaxCalls == 2
\* number of pieces (frames or loose bytes) of a generated connection content
MaxPieces == 4
\* number of producer threads of the sink
NProducers == 2
\* number of records one producer submits
MaxRecords == 2
\* capacity of the sink's queue
QueueCap == 2
\* number of log calls of the logging thread
MaxLogCalls == 3

(***************************************************************************)
(* Strings                                                                 *)
(***************************************************************************)
UpperLetters == <<"A","B","C","D","E","F","G","H","I","J","K","L","M",
                  "N","O","P","Q","R","S","T","U","V","W","X","Y","Z">>
LowerLetters == <<"a","b","c","d","e","f","g","h","i","j","k","l","m",
                  "n","o","p","q","r","s","t","u","v","w","x","y","z">>

to_ascii_lowercase(c) ==
    IF \E i \in 1..Len(UpperLetters) : UpperLetters[i] = c
    THEN LowerLetters[CHOOSE i \in 1..Len(UpperLetters) : UpperLetters[i] = c]
    ELSE c

eq_ignore_ascii_case(a, b) ==
    /\ Len(a) = Len(b)
    /\ \A i \in 1..Len(a) : to_ascii_lowercase(a[i]) = to_ascii_lowercase(b[i])

IsWhitespace(c) == c \in {" ", "\t", "\n"}

RECURSIVE trim_start(_)
trim_start(s) ==
    IF s # <<>> /\ IsWhitespace(Head(s)) THEN trim_start(Tail(s)) ELSE s

RECURSIVE trim_end(_)
trim_end(s) ==
    IF s # <<>> /\ IsWhitespace(s[Len(s)])
    THEN trim_end(SubSeq(s, 1, Len(s) - 1))
    ELSE s

\* str::trim
trim(s) == trim_end(trim_start(s))

RECURSIVE SplitFrom(_, _, _, _)
SplitFrom(s, c, i, cur) ==
    IF i > Len(s) THEN <<cur>>
    ELSE IF s[i] = c THEN <<cur>> \o SplitFrom(s, c, i + 1, <<>>)
    ELSE SplitFrom(s, c, i + 1, Append(cur, s[i]))

\* str::split(c): every segment between separators, empty ones included;
\* an input with n separators has n + 1 segments
split(s, c) == SplitFrom(s, c, 1, <<>>)

(***************************************************************************)
(* Log levels                                                              *)
(***************************************************************************)
LOG_LEVEL_NAMES == << <<"O","F","F">>, <<"E","R","R","O","R">>, <<"W","A","R","N">>,
                      <<"I","N","F","O">>, <<"D","E","B","U","G">>,
                      <<"T","R","A","C","E">> >>
LogLevelFilter == <<"Off", "Error", "Warn", "Info", "Debug", "Trace">>

DEFAULT_LOG_LEVEL_FILTER == "Warn"

\* <LogLevelFilter as FromStr>::from_str: the position of the name that
\* equals the text ignoring ASCII case, Err(()) when there is none
LevelFromStr(s) ==
    IF \E i \in 1..Len(LOG_LEVEL_NAMES) : eq_ignore_ascii_case(LOG_LEVEL_NAMES[i], s)
    THEN [ok |-> TRUE,
          level |-> LogLevelFilter[CHOOSE i \in 1..Len(LOG_LEVEL_NAMES) :
                                      eq_ignore_ascii_case(LOG_LEVEL_NAMES[i], s)]]
    ELSE [ok |-> FALSE, level |-> "none"]

(***************************************************************************)
(* parse_loggers                                                           *)
(***************************************************************************)
\* Logger::builder(name, level).build()
Logger(name, level) == [name |-> name, level |-> level]

ParseLoggerError == [ok |-> FALSE, default_level |-> "none", loggers |-> <<>>,
                     grouped_modules |-> <<>>]

\* the locals of parse_loggers before its loop
ParseStart == [ok |-> TRUE, default_level |-> DEFAULT_LOG_LEVEL_FILTER,
               loggers |-> <<>>, grouped_modules |-> <<>>]

\* while let Some(module) = grouped_modules.pop_front() { loggers.push(..) }
DrainGrouped(loggers, grouped_modules, level) ==
    loggers \o [i \in 1..Len(grouped_modules) |-> Logger(grouped_modules[i], level)]

LeveledTokenNoDrain(st, module_name, level) ==
    LET level_filter == LevelFromStr(level) IN
    IF ~level_filter.ok THEN ParseLoggerError
    ELSE [st EXCEPT !.loggers = Append(@, Logger(module_name, level_filter.level))]

LeveledTokenSetsDefault(st, module_name, level) ==
    LET level_filter == LevelFromStr(level) IN
    IF ~level_filter.ok THEN ParseLoggerError
    ELSE [st EXCEPT
            !.loggers = Append(DrainGrouped(st.loggers, st.grouped_modules,
                                            level_filter.level),
                               Logger(module_name, level_filter.level)),
            !.grouped_modules = <<>>,
            !.default_level = level_filter.level]

LeveledTokenOwnFirst(st, module_name, level) ==
    LET level_filter == LevelFromStr(level) IN
    IF ~level_filter.ok THEN ParseLoggerError
    ELSE [st EXCEPT
            !.loggers = DrainGrouped(Append(st.loggers,
                                            Logger(module_name, level_filter.level)),
                                     st.grouped_modules, level_filter.level),
            !.grouped_modules = <<>>]

\* the arm (Some(module_name), Some(level))
LeveledToken(st, module_name, level) ==
    LET level_filter == LevelFromStr(level) IN
    IF ~level_filter.ok THEN ParseLoggerError
    ELSE [st EXCEPT
            !.loggers = Append(DrainGrouped(st.loggers, st.grouped_modules,
                                            level_filter.level),
                               Logger(module_name, level_filter.level)),
            !.grouped_modules = <<>>]

\* the arm (Some(module), None)
BareToken(st, module) ==
    LET level_filter == LevelFromStr(module) IN
    IF level_filter.ok
    THEN [st EXCEPT !.default_level = level_filter.level]
    ELSE [st EXCEPT !.grouped_modules = Append(@, module)]

\* one iteration of the for loop: the match on (parts.next(), parts.next())
ParseToken(st, sub_input) ==
    LET parts == split(trim(sub_input), "=") IN
    IF ~st.ok THEN st
    ELSE IF Len(parts) >= 2 THEN LeveledToken(st, parts[1], parts[2])
    ELSE IF Len(parts) = 1 THEN BareToken(st, parts[1])
    ELSE ParseLoggerError

KeepEveryToken(d) == TRUE

\* .filter(|d| !d.is_empty())
NotEmpty(d) == d # <<>>

\* input.split(',').map(str::trim).filter(|d| !d.is_empty())
SubInputs(input) ==
    LET trimmed == [i \in 1..Len(split(input, ",")) |-> trim(split(input, ",")[i])]
    IN SelectSeq(trimmed, NotEmpty)

RECURSIVE ParseLoop(_, _, _)
ParseLoop(st, subs, i) ==
    IF i > Len(subs) THEN st ELSE ParseLoop(ParseToken(st, subs[i]), subs, i + 1)

FinalDrainInitialDefault(st) ==
    IF ~st.ok THEN [ok |-> FALSE, default_level |-> "none", loggers |-> <<>>]
    ELSE [ok |-> TRUE, default_level |-> st.default_level,
          loggers |-> DrainGrouped(st.loggers, st.grouped_modules,
                                   DEFAULT_LOG_LEVEL_FILTER)]

\* the drain after the loop and the returned pair
FinalDrain(st) ==
    IF ~st.ok THEN [ok |-> FALSE, default_level |-> "none", loggers |-> <<>>]
    ELSE [ok |-> TRUE, default_level |-> st.default_level,
          loggers |-> DrainGrouped(st.loggers, st.grouped_modules, st.default_level)]

parse_loggers(input) == FinalDrain(ParseLoop(ParseStart, SubInputs(input), 1))

parse_loggers_from_env_TraceWhenUnset(env) ==
    IF env.set THEN parse_loggers(env.val)
    ELSE [ok |-> TRUE, default_level |-> "Trace", loggers |-> <<>>]

\* parse_loggers_from_env: env::var("RUST_LOG") is Ok only when the variable is set
parse_loggers_from_env(env) ==
    IF env.set THEN parse_loggers(env.val)
    ELSE [ok |-> TRUE, default_level |-> DEFAULT_LOG_LEVEL_FILTER, loggers |-> <<>>]

(***************************************************************************)
(* Directive strings given to parse_loggers                                *)
(***************************************************************************)
TokenPool ==
    { <<>>, <<" ">>, <<"a">>, <<" ", "b", " ">>,
      <<"i","n","f","o">>, <<"D","e","b","u","g">>,
      <<"a","=","i","n","f","o">>, <<"b","=","d","e","b","u","g">>,
      <<"=","i","n","f","o">>, <<"a","=">>,
      <<"a","=","d","e","b","u","g","=","i","n","f","o">>,
      <<"a","=","x">> }

RECURSIVE JoinComma(_)
JoinComma(ts) ==
    IF ts = <<>> THEN <<>>
    ELSE IF Len(ts) = 1 THEN ts[1]
    ELSE ts[1] \o <<",">> \o JoinComma(Tail(ts))

\* every directive of at most MaxTokens comma separated tokens of the pool
Directives ==
    { JoinComma(ts) : ts \in UNION { [1..k -> TokenPool] : k \in 0..MaxTokens } }

NoResult == [ok |-> FALSE, default_level |-> "none", loggers |-> <<>>]

ParseIdle ==
    /\ p_input = <<>>
    /\ p_result = NoResult
    /\ p_pc = "idle"

ParseInputs ==
    /\ p_input \in Directives
    /\ p_result = NoResult
    /\ p_pc = "start"

\* the call parse_loggers(p_input)
ParseCall ==
    /\ p_pc = "start"
    /\ p_result' = parse_loggers(p_input)
    /\ p_pc' = "done"
    /\ UNCHANGED p_input
    /\ UNCHANGED <<initVars, reasmVars, sinkVars>>

(***************************************************************************)
(* The reader of the log message server (test server_logging)              *)
(*                                                                         *)
(* A byte is a number 0..255.  The connection content is fixed when the    *)
(* connection is set up; how many of its bytes one read returns is free.   *)
(***************************************************************************)
\* async_log::MSG_TERMINATOR
MSG_TERMINATOR == <<254, 253, 255>>

MSG_COUNT == 3

\* length of scratch_buf: the most one read returns
ScratchLen == 1024

\* a frame on the wire: the bytes of the record text, then the terminator
Frame(text) == text \o MSG_TERMINATOR

\* str::from_utf8 succeeds on ASCII bytes; the bytes 245..255 occur in no UTF-8
\* text (the model's bytes are ASCII or terminator bytes)
from_utf8_ok(bytes) == \A i \in 1..Len(bytes) : bytes[i] < 128

\* pieces a connection content is made of: frames of the texts "" and "a", and
\* loose bytes: the text byte "b", the first and the first two terminator bytes
PiecePool ==
    { [is_frame |-> TRUE, text |-> <<>>],
      [is_frame |-> TRUE, text |-> <<97>>],
      [is_frame |-> FALSE, text |-> <<98>>],
      [is_frame |-> FALSE, text |-> <<254>>],
      [is_frame |-> FALSE, text |-> <<254, 253>>] }

PieceSeqs == UNION { [1..k -> PiecePool] : k \in 0..MaxPieces }

RECURSIVE PieceBytes(_)
PieceBytes(ps) ==
    IF ps = <<>> THEN <<>>
    ELSE (IF Head(ps).is_frame THEN Frame(Head(ps).text) ELSE Head(ps).text)
         \o PieceBytes(Tail(ps))

Min(a, b) == IF a <= b THEN a ELSE b

LoopConditionOffByOne(buf, idx) ==
    idx > Len(buf) \/ Len(buf) - idx >= Len(MSG_TERMINATOR) - 1

\* while read_buf.len() - search_frm_index >= MSG_TERMINATOR.len(): the
\* subtraction is on usize, so with the cursor beyond the buffer it overflows
\* (a panic in a debug build, a huge value in a release build) and does not end
\* the loop
LoopCondition(buf, idx) ==
    idx > Len(buf) \/ Len(buf) - idx >= Len(MSG_TERMINATOR)

\* the for loop at cursor idx (0-based) from offset j on: it reads
\* read_buf[idx + j] and stops at the first byte that differs
RECURSIVE CompareFrom(_, _, _)
CompareFrom(buf, idx, j) ==
    IF j = Len(MSG_TERMINATOR) THEN [found |-> TRUE, out_of_bounds |-> FALSE]
    ELSE IF idx + j >= Len(buf) THEN [found |-> FALSE, out_of_bounds |-> TRUE]
    ELSE IF buf[idx + j + 1] # MSG_TERMINATOR[j + 1]
         THEN [found |-> FALSE, out_of_bounds |-> FALSE]
    ELSE CompareFrom(buf, idx, j + 1)

CompareAt(buf, idx) == CompareFrom(buf, idx, 0)

MatchedRecordPlusOne(buf, idx) == SubSeq(buf, 1, idx + 1)

\* &read_buf[..search_frm_index]
MatchedRecord(buf, idx) == SubSeq(buf, 1, idx)

RestFromMatch(buf, idx) == SubSeq(buf, idx + 1, Len(buf))

\* read_buf.split_off(search_frm_index + MSG_TERMINATOR.len())
RestAfterMatch(buf, idx) == SubSeq(buf, idx + Len(MSG_TERMINATOR) + 1, Len(buf))

CursorKeptAfterMatch(idx) == idx

\* search_frm_index = 0
CursorAfterMatch(idx) == 0

\* offset of the first byte at cursor idx that differs from the terminator
MismatchOffset(buf, idx) ==
    CHOOSE j \in 0..(Len(MSG_TERMINATOR) - 1) :
        /\ buf[idx + j + 1] # MSG_TERMINATOR[j + 1]
        /\ \A k \in 0..(j - 1) : buf[idx + k + 1] = MSG_TERMINATOR[k + 1]

CursorSkipsCompared(buf, idx) == idx + MismatchOffset(buf, idx) + 1

\* the cursor left where it is on a mismatch
CursorStaysAfterMismatch(buf, idx) == idx

\* search_frm_index += 1
CursorAfterMismatch(buf, idx) == idx + 1

\* read_buf.extend_from_slice(&scratch_buf[..bytes_rxd]), with the buffer
\* replaced by the bytes of the read
extend_from_slice_overwrites(buf, bytes) == bytes

\* read_buf.extend_from_slice(&scratch_buf[..bytes_rxd])
extend_from_slice(buf, bytes) == buf \o bytes

ReasmIdle ==
    /\ wire = <<>>
    /\ rcvd = <<>>
    /\ read_buf = <<>>
    /\ search_frm_index = 0
    /\ log_msgs = <<>>
    /\ r_pc = "idle"
    /\ sent = <<>>
    /\ framed = FALSE
    /\ reads = 0

\* the reader has accepted the connection; the peer's bytes are on their way
ReasmStart ==
    /\ \E ps \in PieceSeqs :
        /\ wire = PieceBytes(ps)
        /\ framed = (\A i \in 1..Len(ps) : ps[i].is_frame)
        /\ sent = IF \A i \in 1..Len(ps) : ps[i].is_frame
                  THEN [i \in 1..Len(ps) |-> ps[i].text]
                  ELSE <<>>
    /\ rcvd = <<>>
    /\ read_buf = <<>>
    /\ search_frm_index = 0
    /\ log_msgs = <<>>
    /\ r_pc = "read"
    /\ reads = 0

\* stream.read returns n > 0 bytes, which are appended to read_buf
Read(n) ==
    /\ r_pc = "read"
    /\ n \in 1..Min(Len(wire), ScratchLen)
    /\ read_buf' = extend_from_slice(read_buf, SubSeq(wire, 1, n))
    /\ rcvd' = rcvd \o SubSeq(wire, 1, n)
    /\ wire' = SubSeq(wire, n + 1, Len(wire))
    /\ r_pc' = "scan"
    /\ reads' = reads + 1
    /\ UNCHANGED <<search_frm_index, log_msgs, sent, framed>>
    /\ UNCHANGED <<initVars, parseVars, sinkVars>>

\* stream.read returns 0, the peer having closed after its last byte:
\* unreachable!("Should not have encountered shutdown yet")
ReadEof ==
    /\ r_pc = "read"
    /\ wire = <<>>
    /\ r_pc' = "panicked_eof"
    /\ UNCHANGED <<wire, rcvd, read_buf, search_frm_index, log_msgs, sent, framed,
                   reads>>
    /\ UNCHANGED <<initVars, parseVars, sinkVars>>

\* one iteration of the inner while loop
ScanStep ==
    /\ r_pc = "scan"
    /\ LoopCondition(read_buf, search_frm_index)
    /\ LET c == CompareAt(read_buf, search_frm_index)
           rec == MatchedRecord(read_buf, search_frm_index)
       IN IF search_frm_index > Len(read_buf) \/ c.out_of_bounds
          THEN /\ r_pc' = "panicked_index"
               /\ UNCHANGED <<read_buf, search_frm_index, log_msgs>>
          ELSE IF ~c.found
          THEN /\ search_frm_index' = CursorAfterMismatch(read_buf, search_frm_index)
               /\ UNCHANGED <<read_buf, log_msgs, r_pc>>
          ELSE IF ~from_utf8_ok(rec)
          THEN /\ r_pc' = "panicked_utf8"
               /\ UNCHANGED <<read_buf, search_frm_index, log_msgs>>
          ELSE /\ log_msgs' = Append(log_msgs, rec)
               /\ read_buf' = RestAfterMatch(read_buf, search_frm_index)
               /\ search_frm_index' = CursorAfterMatch(search_frm_index)
               /\ UNCHANGED r_pc
    /\ UNCHANGED <<wire, rcvd, sent, framed, reads>>
    /\ UNCHANGED <<initVars, parseVars, sinkVars>>

\* the inner loop ends; the outer loop goes on while log_msgs.len() < MSG_COUNT
ScanExit ==
    /\ r_pc = "scan"
    /\ ~LoopCondition(read_buf, search_frm_index)
    /\ r_pc' = IF Len(log_msgs) < MSG_COUNT THEN "read" ELSE "done"
    /\ UNCHANGED <<wire, rcvd, read_buf, search_frm_index, log_msgs, sent, framed,
                   reads>>
    /\ UNCHANGED <<initVars, parseVars, sinkVars>>

(***************************************************************************)
(* The asynchronous sink (AsyncAppender) behind init_to_server_async       *)
(***************************************************************************)
Producers == 1..NProducers

\* the levels of error!, warn!, info!, debug!, trace!
LogLevels == {"Error", "Warn", "Info", "Debug", "Trace"}

LevelRank(level) == CHOOSE i \in 1..Len(LogLevelFilter) : LogLevelFilter[i] = level

\* a record is admitted when its level is at least as severe as the filter
Admits(filter, level) == LevelRank(level) <= LevelRank(filter)

\* the root level init_to_server_async configures with RUST_LOG unset
ServerThreshold == parse_loggers_from_env([set |-> FALSE, val |-> <<>>]).default_level

\* the rendered text of record n of producer p: two ASCII digits
Render(rec) == <<48 + rec.p, 48 + rec.n>>

QueueTakeNewest(queue) ==
    [rec |-> queue[Len(queue)], rest |-> SubSeq(queue, 1, Len(queue) - 1)]

\* the consumer takes the oldest record of the queue
QueueTake(queue) == [rec |-> Head(queue), rest |-> Tail(queue)]

DrainedAlways(queue) == TRUE

\* shutdown returns when the queue is drained
Drained(queue) == queue = <<>>

SinkIdle ==
    /\ s_calls = <<>>
    /\ s_next = [p \in Producers |-> 1]
    /\ s_queue = <<>>
    /\ s_writes = <<>>
    /\ s_failed = FALSE
    /\ s_shut = "idle"

\* the sink after init_to_server_async returned Ok
SinkStart ==
    /\ s_calls = <<>>
    /\ s_next = [p \in Producers |-> 1]
    /\ s_queue = <<>>
    /\ s_writes = <<>>
    /\ s_failed = FALSE
    /\ s_shut = "open"

\* a log call of the logging thread (the main thread of test server_logging):
\* the record is handed to the sink when the root level admits it
LogCall(level) ==
    /\ s_shut = "open"
    /\ Len(s_calls) < MaxLogCalls
    /\ s_calls' = Append(s_calls, level)
    /\ IF Admits(ServerThreshold, level)
       THEN /\ Len(s_queue) < QueueCap
            /\ s_queue' = Append(s_queue, [p |-> 1, n |-> Len(s_calls) + 1])
       ELSE UNCHANGED s_queue
    /\ UNCHANGED <<s_next, s_writes, s_failed, s_shut>>
    /\ UNCHANGED <<initVars, parseVars, reasmVars>>

\* submit: producer p hands its next record to the sink, waiting while the
\* queue is at capacity
Submit(p) ==
    /\ s_shut = "open"
    /\ s_next[p] <= MaxRecords
    /\ Len(s_queue) < QueueCap
    /\ s_queue' = Append(s_queue, [p |-> p, n |-> s_next[p]])
    /\ s_next' = [s_next EXCEPT ![p] = @ + 1]
    /\ UNCHANGED <<s_calls, s_writes, s_failed, s_shut>>
    /\ UNCHANGED <<initVars, parseVars, reasmVars>>

\* the single consumer takes one record and writes its frame in one write call;
\* after a failed write the records it takes are discarded
Consume ==
    /\ s_shut \in {"open", "draining"}
    /\ s_queue # <<>>
    /\ s_queue' = QueueTake(s_queue).rest
    /\ \E write_ok \in BOOLEAN :
        IF s_failed \/ ~write_ok
        THEN s_failed' = TRUE /\ UNCHANGED s_writes
        ELSE /\ s_writes' = Append(s_writes, Frame(Render(QueueTake(s_queue).rec)))
             /\ UNCHANGED s_failed
    /\ UNCHANGED <<s_calls, s_next, s_shut>>
    /\ UNCHANGED <<initVars, parseVars, reasmVars>>

\* shutdown is called: no record is accepted any more and the caller waits
ShutdownCall ==
    /\ s_shut = "open"
    /\ s_shut' = "draining"
    /\ UNCHANGED <<s_calls, s_next, s_queue, s_writes, s_failed>>
    /\ UNCHANGED <<initVars, parseVars, reasmVars>>

\* shutdown returns
ShutdownReturn ==
    /\ s_shut = "draining"
    /\ Drained(s_queue)
    /\ s_shut' = "returned"
    /\ UNCHANGED <<s_calls, s_next, s_queue, s_writes, s_failed>>
    /\ UNCHANGED <<initVars, parseVars, reasmVars>>

(***************************************************************************)
(* The initialisers                                                        *)
(***************************************************************************)
Threads == 1..NThreads

Variants == {"init", "init_to_file", "init_to_file_async", "init_to_server_async"}

AlreadyInitialised == "Logger already initialised"

\* values of RUST_LOG: unset, or one of a few directives (one names a module
\* twice, one carries a level text that is no level)
RustLogChoices ==
    { [set |-> FALSE, val |-> <<>>] } \cup
    { [set |-> TRUE, val |-> v] :
        v \in { <<>>, <<"i","n","f","o">>, <<"a",",","b","=","d","e","b","u","g">>,
                <<"a",",","a">>, <<"a","=","x">> } }

\* what the environment answers during one run of a setup body
SetupInputs ==
    [config_is_file : BOOLEAN,   \* Path::new(CONFIG_FILE).is_file()
     init_file_ok   : BOOLEAN,   \* log4rs::init_file accepts log.toml
     file_ok        : BOOLEAN,   \* the file appender can open file_path
     connect_ok     : BOOLEAN,   \* TcpStream::connect succeeds
     nodelay_ok     : BOOLEAN]   \* stream.set_nodelay succeeds

\* Config::builder(root)...loggers(loggers).build(): the appenders named by the
\* root are the ones added, so the build is refused only for the loggers, when
\* two of them carry the same name
config_build_ok(loggers) ==
    \A i, k \in 1..Len(loggers) : loggers[i].name = loggers[k].name => i = k

\* log4rs::init_config: log::set_logger fails when a logger is already installed
init_config(installed) == IF installed THEN "SetLoggerError" ELSE "Ok"

\* the closure of init: the outcome is the value left in `result`, or "panic"
init_body(env, io, installed) ==
    IF io.config_is_file
    THEN IF io.init_file_ok THEN init_config(installed) ELSE "init_file error"
    ELSE IF ~parse_loggers_from_env(env).ok THEN "panic"
    ELSE IF ~config_build_ok(parse_loggers_from_env(env).loggers) THEN "config error"
    ELSE init_config(installed)

\* the closure of init_to_file
init_to_file_body(env, io, installed) ==
    IF ~io.file_ok THEN "io error"
    ELSE IF ~parse_loggers_from_env(env).ok THEN "ParseLoggerError"
    ELSE IF ~config_build_ok(parse_loggers_from_env(env).loggers) THEN "config error"
    ELSE init_config(installed)

\* the closure of init_to_file_async
init_to_file_async_body(env, io, installed) ==
    IF ~parse_loggers_from_env(env).ok THEN "ParseLoggerError"
    ELSE IF ~io.file_ok THEN "io error"
    ELSE IF ~config_build_ok(parse_loggers_from_env(env).loggers) THEN "config error"
    ELSE init_config(installed)

\* the closure of init_to_server_async
init_to_server_async_body(env, io, installed) ==
    IF ~parse_loggers_from_env(env).ok THEN "ParseLoggerError"
    ELSE IF ~io.connect_ok THEN "connect error"
    ELSE IF ~io.nodelay_ok THEN "nodelay error"
    ELSE IF ~config_build_ok(parse_loggers_from_env(env).loggers) THEN "config error"
    ELSE init_config(installed)

SetupBody(v, env, io, installed) ==
    CASE v = "init" -> init_body(env, io, installed)
      [] v = "init_to_file" -> init_to_file_body(env, io, installed)
      [] v = "init_to_file_async" -> init_to_file_async_body(env, io, installed)
      [] v = "init_to_server_async" -> init_to_server_async_body(env, io, installed)

OnceDoneOnlyOnPanic(panicked) == IF panicked THEN "poisoned" ELSE "incomplete"

\* Once after its closure ran: complete when the closure returned, whatever it
\* left in `result`; poisoned when it panicked
OnceAfterClosure(panicked) == IF panicked THEN "poisoned" ELSE "complete"

OnceSkipsWithoutWaiting(state) == state \in {"complete", "running"}

\* call_once returns without running its closure only when the Once is complete;
\* while another thread runs the closure the caller blocks
OnceSkips(state) == state = "complete"

InitIdle ==
    /\ once = "incomplete"
    /\ logger_set = FALSE
    /\ rust_log = [set |-> FALSE, val |-> <<>>]
    /\ pc = [t \in Threads |-> "idle"]
    /\ variant = [t \in Threads |-> "none"]
    /\ result = [t \in Threads |-> "none"]
    /\ calls = [t \in Threads |-> 0]
    /\ after_ok = [t \in Threads |-> FALSE]
    /\ body_runs = 0
    /\ ok_count = 0

Init ==
    /\ once = "incomplete"
    /\ logger_set = FALSE
    /\ rust_log \in RustLogChoices
    /\ pc = [t \in Threads |-> "idle"]
    /\ variant = [t \in Threads |-> "none"]
    /\ result = [t \in Threads |-> "none"]
    /\ calls = [t \in Threads |-> 0]
    /\ after_ok = [t \in Threads |-> FALSE]
    /\ body_runs = 0
    /\ ok_count = 0
    /\ ParseIdle
    /\ ReasmIdle
    /\ SinkIdle

\* entry of an initialiser: let mut result = Err("Logger already initialised")
Call(t, v) ==
    /\ pc[t] \in {"idle", "returned"}
    /\ calls[t] < MaxCalls
    /\ pc' = [pc EXCEPT ![t] = "call_once"]
    /\ variant' = [variant EXCEPT ![t] = v]
    /\ result' = [result EXCEPT ![t] = AlreadyInitialised]
    /\ calls' = [calls EXCEPT ![t] = @ + 1]
    /\ after_ok' = [after_ok EXCEPT ![t] = (ok_count > 0)]
    /\ UNCHANGED <<once, logger_set, rust_log, body_runs, ok_count>>
    /\ UNCHANGED <<parseVars, reasmVars, sinkVars>>

\* call_once on a fresh Once: this thread runs the closure
CallOnceRun(t) ==
    /\ pc[t] = "call_once"
    /\ once = "incomplete"
    /\ once' = "running"
    /\ pc' = [pc EXCEPT ![t] = "body"]
    /\ body_runs' = body_runs + 1
    /\ UNCHANGED <<logger_set, rust_log, variant, result, calls, after_ok, ok_count>>
    /\ UNCHANGED <<parseVars, reasmVars, sinkVars>>

\* the closure finishes (returns or panics) and, when it returned, so does the call
FinishBody(t) ==
    /\ pc[t] = "body"
    /\ \E io \in SetupInputs :
        LET out == SetupBody(variant[t], rust_log, io, logger_set) IN
        /\ once' = OnceAfterClosure(out = "panic")
        /\ logger_set' = (logger_set \/ out = "Ok")
        /\ result' = [result EXCEPT ![t] = IF out = "panic" THEN "none" ELSE out]
        /\ pc' = [pc EXCEPT ![t] = IF out = "panic" THEN "panicked" ELSE "returned"]
        /\ ok_count' = IF out = "Ok" THEN ok_count + 1 ELSE ok_count
    /\ UNCHANGED <<rust_log, variant, calls, after_ok, body_runs>>
    /\ UNCHANGED <<parseVars, reasmVars, sinkVars>>

\* call_once on a completed Once: the closure is skipped, `result` keeps its
\* initial value and is returned
CallOnceSkip(t) ==
    /\ pc[t] = "call_once"
    /\ OnceSkips(once)
    /\ pc' = [pc EXCEPT ![t] = "returned"]
    /\ UNCHANGED <<once, logger_set, rust_log, variant, result, calls, after_ok,
                   body_runs, ok_count>>
    /\ UNCHANGED <<parseVars, reasmVars, sinkVars>>

\* call_once on a poisoned Once panics
CallOncePoisoned(t) ==
    /\ pc[t] = "call_once"
    /\ once = "poisoned"
    /\ pc' = [pc EXCEPT ![t] = "panicked"]
    /\ result' = [result EXCEPT ![t] = "none"]
    /\ UNCHANGED <<once, logger_set, rust_log, variant, calls, after_ok,
                   body_runs, ok_count>>
    /\ UNCHANGED <<parseVars, reasmVars, sinkVars>>

Next ==
    \/ \E t \in Threads : \E v \in Variants : Call(t, v)
    \/ \E t \in Threads : CallOnceRun(t)
    \/ \E t \in Threads : FinishBody(t)
    \/ \E t \in Threads : CallOnceSkip(t)
    \/ \E t \in Threads : CallOncePoisoned(t)

Spec == Init /\ [][Next]_vars

InitParse == InitIdle /\ ParseInputs /\ ReasmIdle /\ SinkIdle

NextParse == ParseCall

SpecParse == InitParse /\ [][NextParse]_vars

InitReasm == InitIdle /\ ParseIdle /\ ReasmStart /\ SinkIdle

NextReasm ==
    \/ \E n \in 1..Min(Len(wire), ScratchLen) : Read(n)
    \/ ReadEof
    \/ ScanStep
    \/ ScanExit

SpecReasm == InitReasm /\ [][NextReasm]_vars

\* the reader thread keeps running while it is in its inner loop
SpecReasmLive == SpecReasm /\ WF_vars(ScanStep) /\ WF_vars(ScanExit)

InitSink == InitIdle /\ ParseIdle /\ ReasmIdle /\ SinkStart

NextLog ==
    \/ \E level \in LogLevels : LogCall(level)
    \/ Consume

SpecLog == InitSink /\ [][NextLog]_vars

NextSink ==
    \/ \E p \in Producers : Submit(p)
    \/ Consume
    \/ ShutdownCall
    \/ ShutdownReturn

SpecSink == InitSink /\ [][NextSink]_vars

\* the consumer is a thread of its own and the caller of shutdown is running:
\* neither stays enabled forever without taking its step
SpecSinkLive == SpecSink /\ WF_vars(Consume) /\ WF_vars(ShutdownReturn)

(***************************************************************************)
(* Properties of the initialisers (checked under Spec)                     *)
(***************************************************************************)

\* C1: once some initialiser call has returned Ok, every call started later, of
\* any variant and on any thread, never enters a setup body, never panics, and
\* returns Err("Logger already initialised").
C1_AfterOkAlreadyInitialised ==
    \A t \in Threads :
        after_ok[t] =>
            /\ pc[t] \notin {"body", "panicked"}
            /\ pc[t] = "returned" => result[t] = AlreadyInitialised

\* two later calls of different variants were both refused after a success
C1_Witness ==
    \E t, u \in Threads :
        /\ t # u
        /\ variant[t] # variant[u]
        /\ \A x \in {t, u} :
            after_ok[x] /\ pc[x] = "returned" /\ result[x] = AlreadyInitialised

\* C2: under every interleaving the setup body is entered at most once, at most
\* one call returns Ok, and a call that did not run the body returns only when
\* no thread is inside the body.
C2_OnceUnderConcurrency ==
    /\ [](body_runs <= 1 /\ ok_count <= 1)
    /\ [][\A t \in Threads :
            (pc[t] = "call_once" /\ pc'[t] = "returned") =>
                \A u \in Threads : pc[u] # "body"]_vars

\* a call that started before the successful call returned was made to wait and
\* was then refused
C2_Witness ==
    \E t, u \in Threads :
        /\ t # u
        /\ pc[t] = "returned" /\ result[t] = "Ok"
        /\ pc[u] = "returned" /\ result[u] = AlreadyInitialised /\ ~after_ok[u]

\* C3: a call that returns "Logger already initialised" finds the process logger
\* installed.
C3_AlreadyInitialisedMeansLoggerSet ==
    \A t \in Threads :
        (pc[t] = "returned" /\ result[t] = AlreadyInitialised) => logger_set

\* C4: no initialiser call ends in a panic: a setup failure is the Err value of
\* the call, and the calls after it return as well.
C4_SetupFailureIsReturned ==
    \A t \in Threads : pc[t] # "panicked"

(***************************************************************************)
(* Properties of parse_loggers (checked under SpecParse)                   *)
(***************************************************************************)
HasEq(tok) == \E i \in 1..Len(tok) : tok[i] = "="

CountEq(tok) == Cardinality({i \in 1..Len(tok) : tok[i] = "="})

FirstEq(tok) == CHOOSE i \in 1..Len(tok) : tok[i] = "=" /\ \A k \in 1..(i - 1) : tok[k] # "="

BeforeEq(tok) == SubSeq(tok, 1, FirstEq(tok) - 1)

AfterEq(tok) == SubSeq(tok, FirstEq(tok) + 1, Len(tok))

IsBareLevel(tok) == ~HasEq(tok) /\ LevelFromStr(tok).ok

IsBareModule(tok) == ~HasEq(tok) /\ ~LevelFromStr(tok).ok

\* position in the override list of the override that belongs to token i
OverrideIndex(toks, i) == Cardinality({k \in 1..i : ~IsBareLevel(toks[k])})

LeveledAfter(toks, i) == {j \in (i + 1)..Len(toks) : HasEq(toks[j])}

FirstLeveledAfter(toks, i) ==
    CHOOSE j \in LeveledAfter(toks, i) : \A k \in LeveledAfter(toks, i) : j <= k

\* level named by the last bare level token, Warn when there is none
FinalDefault(toks) ==
    LET lv == {i \in 1..Len(toks) : IsBareLevel(toks[i])} IN
    IF lv = {} THEN "Warn"
    ELSE LevelFromStr(toks[CHOOSE i \in lv : \A k \in lv : k <= i]).level

\* C5: in a successful parse every bare module token with a leveled token after
\* it is emitted under its own name with the level emitted for the first leveled
\* token that follows it, and a token name=level is emitted as (name, level).
C5_BareModuleAdoptsNextLeveled ==
    (p_pc = "done" /\ p_result.ok) =>
        LET toks == SubInputs(p_input)
            L == p_result.loggers
        IN \A i \in 1..Len(toks) :
            /\ (IsBareModule(toks[i]) /\ LeveledAfter(toks, i) # {}) =>
                /\ OverrideIndex(toks, FirstLeveledAfter(toks, i)) \in 1..Len(L)
                /\ L[OverrideIndex(toks, i)].name = toks[i]
                /\ L[OverrideIndex(toks, i)].level =
                       L[OverrideIndex(toks, FirstLeveledAfter(toks, i))].level
            /\ CountEq(toks[i]) = 1 =>
                /\ OverrideIndex(toks, i) \in 1..Len(L)
                /\ L[OverrideIndex(toks, i)] =
                       Logger(BeforeEq(toks[i]), LevelFromStr(AfterEq(toks[i])).level)

\* a bare module, then a bare level, then name=level with another level
C5_Witness ==
    /\ p_pc = "done" /\ p_result.ok
    /\ LET toks == SubInputs(p_input) IN
       \E i, k, j \in 1..Len(toks) :
            /\ i < k /\ k < j
            /\ IsBareModule(toks[i]) /\ IsBareLevel(toks[k]) /\ CountEq(toks[j]) = 1
            /\ LevelFromStr(toks[k]).level # LevelFromStr(AfterEq(toks[j])).level
            /\ p_result.loggers[OverrideIndex(toks, i)].level =
                   LevelFromStr(AfterEq(toks[j])).level

\* C6: in a successful parse every bare module token with no leveled token after
\* it is emitted with the level of the last bare level token of the whole input,
\* Warn when the input has none.
C6_TrailingBareModuleGetsFinalDefault ==
    (p_pc = "done" /\ p_result.ok) =>
        LET toks == SubInputs(p_input)
            L == p_result.loggers
        IN \A i \in 1..Len(toks) :
            (IsBareModule(toks[i]) /\ LeveledAfter(toks, i) = {}) =>
                /\ OverrideIndex(toks, i) \in 1..Len(L)
                /\ L[OverrideIndex(toks, i)] = Logger(toks[i], FinalDefault(toks))

\* a trailing bare module whose level is set by a bare level token behind it
C6_Witness ==
    /\ p_pc = "done" /\ p_result.ok
    /\ LET toks == SubInputs(p_input) IN
       \E i, k \in 1..Len(toks) :
            /\ i < k
            /\ IsBareModule(toks[i]) /\ LeveledAfter(toks, i) = {}
            /\ IsBareLevel(toks[k]) /\ FinalDefault(toks) # "Warn"
            /\ p_result.loggers[OverrideIndex(toks, i)].level = FinalDefault(toks)

\* C7: the default level of a successful parse is the level of the last bare
\* level token, Warn when there is none; leveled tokens do not change it.
C7_DefaultIsLastBareLevel ==
    (p_pc = "done" /\ p_result.ok) =>
        p_result.default_level = FinalDefault(SubInputs(p_input))

\* two bare level tokens of different levels, then name=level of yet another level
C7_Witness ==
    /\ p_pc = "done" /\ p_result.ok
    /\ LET toks == SubInputs(p_input) IN
       \E i, k, j \in 1..Len(toks) :
            /\ i < k /\ k < j
            /\ IsBareLevel(toks[i]) /\ IsBareLevel(toks[k]) /\ CountEq(toks[j]) = 1
            /\ LevelFromStr(toks[i]).level # LevelFromStr(toks[k]).level
            /\ LevelFromStr(AfterEq(toks[j])).level # LevelFromStr(toks[k]).level
            /\ p_result.default_level = LevelFromStr(toks[k]).level

\* C8: an input made of commas and whitespace only parses to (Warn, no overrides).
C8_BlankInputGivesDefault ==
    (p_pc = "done" /\ \A i \in 1..Len(p_input) : p_input[i] \in {",", " "}) =>
        p_result = [ok |-> TRUE, default_level |-> DEFAULT_LOG_LEVEL_FILTER,
                    loggers |-> <<>>]

\* an input holding both commas and blanks has been parsed
C8_Witness ==
    /\ p_pc = "done"
    /\ \A i \in 1..Len(p_input) : p_input[i] \in {",", " "}
    /\ \E i, k \in 1..Len(p_input) : p_input[i] = "," /\ p_input[k] = " "
    /\ p_result.ok

\* C9: an input with a token that holds two or more '=' is rejected.
C9_TwoEqualsRejected ==
    (p_pc = "done" /\ \E i \in 1..Len(SubInputs(p_input)) :
                            CountEq(SubInputs(p_input)[i]) >= 2)
        => ~p_result.ok

\* C10: an input with a token =level is rejected, and no returned override has
\* an empty module name.
C10_EmptyNameRejected ==
    p_pc = "done" =>
        /\ (\E i \in 1..Len(SubInputs(p_input)) : Head(SubInputs(p_input)[i]) = "=")
                => ~p_result.ok
        /\ p_result.ok =>
                \A k \in 1..Len(p_result.loggers) : p_result.loggers[k].name # <<>>

\* C11: when some token holding '=' carries, after its first '=', a text that is
\* no level (the empty text included), the parse returns ParseLoggerError with no
\* default level and no override, whatever the other tokens are.
C11_BadLevelTextRejectsAll ==
    (p_pc = "done" /\ \E i \in 1..Len(SubInputs(p_input)) :
                            /\ HasEq(SubInputs(p_input)[i])
                            /\ ~LevelFromStr(AfterEq(SubInputs(p_input)[i])).ok)
        => p_result = [ok |-> FALSE, default_level |-> "none", loggers |-> <<>>]

\* C19: a successful parse returns one override per module token (bare module
\* or token holding '='), under the token's module name and in the order of the
\* tokens; bare level tokens give no override.
C19_OneOverridePerModuleToken ==
    (p_pc = "done" /\ p_result.ok) =>
        LET toks == SubInputs(p_input)
            L == p_result.loggers
        IN /\ Len(L) = Cardinality({i \in 1..Len(toks) : ~IsBareLevel(toks[i])})
           /\ \A i \in 1..Len(toks) :
                ~IsBareLevel(toks[i]) =>
                    /\ OverrideIndex(toks, i) \in 1..Len(L)
                    /\ L[OverrideIndex(toks, i)].name =
                          IF HasEq(toks[i]) THEN BeforeEq(toks[i]) ELSE toks[i]

\* a bare module, then name=level naming another module, then a bare level
\* token: two overrides in token order
C19_Witness ==
    /\ p_pc = "done" /\ p_result.ok
    /\ LET toks == SubInputs(p_input) IN
       /\ Len(toks) = 3
       /\ IsBareModule(toks[1]) /\ CountEq(toks[2]) = 1 /\ IsBareLevel(toks[3])
       /\ BeforeEq(toks[2]) # toks[1]
       /\ Len(p_result.loggers) = 2
       /\ p_result.loggers[1].name = toks[1]
       /\ p_result.loggers[2].name = BeforeEq(toks[2])

(***************************************************************************)
(* Properties of the reader (checked under SpecReasm)                      *)
(***************************************************************************)
IsPrefix(a, b) == Len(a) <= Len(b) /\ SubSeq(b, 1, Len(a)) = a

\* the terminator stands in s at the 0-based position i
TerminatorAt(s, i) ==
    /\ i + Len(MSG_TERMINATOR) <= Len(s)
    /\ \A k \in 1..Len(MSG_TERMINATOR) : s[i + k] = MSG_TERMINATOR[k]

Occurrences(s) == {i \in 0..Len(s) : TerminatorAt(s, i)}

\* the bytes of s behind its last terminator, all of s when it holds none
TailAfterLast(s) ==
    IF Occurrences(s) = {} THEN s
    ELSE LET last == CHOOSE i \in Occurrences(s) : \A k \in Occurrences(s) : k <= i
         IN SubSeq(s, last + Len(MSG_TERMINATOR) + 1, Len(s))

\* the reader can take no further step that emits a record
ReaderAtRest == (wire = <<>> /\ r_pc \in {"read", "panicked_eof"}) \/ r_pc = "done"

\* C12: a connection that carries the frame of one record text, cut into reads
\* in any way, makes the reader emit that text and nothing else: it never fails
\* on the way, and once all bytes are read it holds exactly the one record and
\* an empty buffer.
C12_RoundTripOneRecord ==
    (framed /\ Len(sent) = 1) =>
        /\ r_pc \notin {"panicked_index", "panicked_utf8"}
        /\ IsPrefix(log_msgs, sent)
        /\ ReaderAtRest => (log_msgs = sent /\ read_buf = <<>>)

\* the frame of the text "a" has been read and the text emitted
C12_Witness ==
    /\ framed /\ sent = << <<97>> >>
    /\ wire = <<>> /\ r_pc = "read"
    /\ log_msgs = sent

\* C13 as stated: for every number k of frames written in order, the reader
\* emits exactly the k record texts in the order sent.
C13_EveryRecordEmitted ==
    framed =>
        /\ r_pc \notin {"panicked_index", "panicked_utf8"}
        /\ IsPrefix(log_msgs, sent)
        /\ ReaderAtRest => log_msgs = sent

\* C13 as amended: what the reader has emitted is always the first records sent,
\* in order; it ends with all k of them when k <= MSG_COUNT, and with at least
\* MSG_COUNT of them when k > MSG_COUNT (it stops reading at MSG_COUNT records).
C13_RecordsEmittedUpToMsgCount ==
    framed =>
        /\ r_pc \notin {"panicked_index", "panicked_utf8"}
        /\ IsPrefix(log_msgs, sent)
        /\ ReaderAtRest =>
            /\ Len(sent) <= MSG_COUNT => log_msgs = sent
            /\ Len(sent) > MSG_COUNT => Len(log_msgs) >= MSG_COUNT

\* MSG_COUNT frames, not all of the same text, were read and emitted in order
C13_Witness ==
    /\ framed /\ Len(sent) = MSG_COUNT
    /\ \E i, k \in 1..Len(sent) : sent[i] # sent[k]
    /\ r_pc = "done"
    /\ log_msgs = sent

\* C17: no emitted record contains the terminator, and each match the scan
\* finds is the first terminator of the buffer: no terminator starts before
\* the cursor, and the record is the buffer up to the cursor.
C17_MatchIsFirstTerminator ==
    /\ [](\A i \in 1..Len(log_msgs) : Occurrences(log_msgs[i]) = {})
    /\ [][(r_pc = "scan" /\ (Len(log_msgs') = Len(log_msgs) + 1 \/ r_pc' = "panicked_utf8"))
            => /\ TerminatorAt(read_buf, search_frm_index)
               /\ \A i \in Occurrences(read_buf) : i >= search_frm_index
               /\ Len(log_msgs') = Len(log_msgs) + 1 =>
                     log_msgs'[Len(log_msgs')] = SubSeq(read_buf, 1, search_frm_index)]_vars

\* two records were emitted from a content that is not a sequence of frames
C17_Witness ==
    /\ ~framed
    /\ Len(log_msgs) = 2
    /\ log_msgs[1] # log_msgs[2]

\* C18: the reader has emitted at most as many records as complete terminators
\* were received; whenever a read has been processed, it has emitted one record
\* per terminator received and the buffer is exactly the bytes received behind
\* the last terminator.
C18_BufferIsTailAfterLastTerminator ==
    /\ Len(log_msgs) <= Cardinality(Occurrences(rcvd))
    /\ r_pc \in {"read", "done", "panicked_eof"} =>
        /\ Len(log_msgs) = Cardinality(Occurrences(rcvd))
        /\ read_buf = TailAfterLast(rcvd)

\* the text "a" and the first two bytes of its terminator are buffered, the
\* third byte is still to be read, and nothing has been emitted
C18_Witness ==
    /\ r_pc = "read"
    /\ read_buf = <<97, 254, 253>>
    /\ wire # <<>> /\ Head(wire) = 255
    /\ log_msgs = <<>>

\* C20: the cursor stays within 0..len(read_buf), no index read lies outside
\* the buffer, no terminator starts before the cursor, and when the inner loop
\* has ended fewer than len(MSG_TERMINATOR) bytes lie at or behind the cursor.
C20_CursorInvariant ==
    /\ search_frm_index \in 0..Len(read_buf)
    /\ r_pc # "panicked_index"
    /\ \A i \in Occurrences(read_buf) : i >= search_frm_index
    /\ r_pc \in {"read", "done", "panicked_eof"} =>
            Len(read_buf) - search_frm_index < Len(MSG_TERMINATOR)

\* the cursor has moved past a text byte and stands before the first two bytes
\* of a terminator that is not complete yet
C20_Witness ==
    /\ r_pc = "read"
    /\ search_frm_index >= 1
    /\ SubSeq(read_buf, search_frm_index + 1, Len(read_buf)) = <<254, 253>>

(***************************************************************************)
(* Properties of the sink (checked under SpecLog, SpecSink, SpecSinkLive)  *)
(***************************************************************************)
Severe(level) == level \in {"Error", "Warn"}

\* the frames of the warn and error calls among calls i.. of the logging thread
RECURSIVE SevereFrames(_, _)
SevereFrames(callseq, i) ==
    IF i > Len(callseq) THEN <<>>
    ELSE (IF Severe(callseq[i]) THEN <<Frame(Render([p |-> 1, n |-> i]))>> ELSE <<>>)
         \o SevereFrames(callseq, i + 1)

AllRecords == [p : Producers, n : 1..MaxRecords]

\* C14: with RUST_LOG unset, what is written to the server is always the frames
\* of the first warn and error calls in call order, no info, debug or trace call
\* among them, and all of them once the queue is empty (the sink not having
\* failed).
C14_OnlyWarnAndErrorDelivered ==
    /\ IsPrefix(s_writes, SevereFrames(s_calls, 1))
    /\ (~s_failed /\ s_queue = <<>>) => s_writes = SevereFrames(s_calls, 1)

\* info, warn, error were logged; the two admitted records were written
C14_Witness ==
    /\ s_calls = <<"Info", "Warn", "Error">>
    /\ ~s_failed
    /\ Len(s_writes) = 2

\* C15: every write of the consumer is the frame of exactly one submitted
\* record; the records of one producer are written in the order it submitted
\* them; and when every producer has submitted all its records and the queue is
\* empty, all of them were written (the sink not having failed).
C15_PerProducerOrder ==
    /\ \A i \in 1..Len(s_writes) :
        \E r \in AllRecords : s_writes[i] = Frame(Render(r)) /\ r.n < s_next[r.p]
    /\ \A i, k \in 1..Len(s_writes) : \A q, r \in AllRecords :
        (i < k /\ q.p = r.p /\ s_writes[i] = Frame(Render(q))
               /\ s_writes[k] = Frame(Render(r))) => q.n < r.n
    /\ (~s_failed /\ s_queue = <<>> /\ \A p \in Producers : s_next[p] > MaxRecords) =>
        \A r \in AllRecords : \E i \in 1..Len(s_writes) : s_writes[i] = Frame(Render(r))

\* records of two producers were written alternately
C15_Witness ==
    /\ ~s_failed
    /\ Len(s_writes) >= 3
    /\ s_writes[1] = Frame(Render([p |-> 1, n |-> 1]))
    /\ s_writes[2] = Frame(Render([p |-> 2, n |-> 1]))
    /\ s_writes[3] = Frame(Render([p |-> 1, n |-> 2]))

\* C16: when shutdown has returned and the sink has not failed, the queue is
\* empty and every record submitted was written; and a shutdown that was called
\* returns.
C16_ShutdownDrains ==
    /\ []((s_shut = "returned" /\ ~s_failed) =>
            /\ s_queue = <<>>
            /\ \A r \in AllRecords :
                r.n < s_next[r.p] =>
                    \E i \in 1..Len(s_writes) : s_writes[i] = Frame(Render(r)))
    /\ (s_shut = "draining") ~> (s_shut = "returned")

\* shutdown was called with two records waiting in the queue
C16_Witness ==
    /\ s_shut = "draining"
    /\ Len(s_queue) >= 2
    /\ ~s_failed

(***************************************************************************)
(* Independence of the read boundaries (checked under SpecReasm)           *)
(***************************************************************************)
\* the inner loop run to its end on one buffer: what the reader does with a
\* stream that a single read returns whole
RECURSIVE ScanToEnd(_, _, _)
ScanToEnd(buf, idx, msgs) ==
    IF ~LoopCondition(buf, idx)
    THEN [msgs |-> msgs, buf |-> buf, end |-> "exit"]
    ELSE LET c == CompareAt(buf, idx)
             rec == MatchedRecord(buf, idx)
         IN IF idx > Len(buf) \/ c.out_of_bounds
            THEN [msgs |-> msgs, buf |-> buf, end |-> "panicked_index"]
            ELSE IF ~c.found
            THEN ScanToEnd(buf, CursorAfterMismatch(buf, idx), msgs)
            ELSE IF ~from_utf8_ok(rec)
            THEN [msgs |-> msgs, buf |-> buf, end |-> "panicked_utf8"]
            ELSE ScanToEnd(RestAfterMatch(buf, idx), CursorAfterMatch(idx),
                           Append(msgs, rec))

OneRead(stream) == ScanToEnd(stream, 0, <<>>)

\* the reader has left its loops without failing on a record, or holds every
\* byte of the stream and has processed it
RunEnded == r_pc \in {"done", "panicked_eof"} \/ (r_pc = "read" /\ wire = <<>>)

C22_InnerLoopTerminates ==
    /\ [][(r_pc = "scan" /\ r_pc' = "scan") =>
            \/ /\ search_frm_index' = search_frm_index + 1
               /\ read_buf' = read_buf
               /\ log_msgs' = log_msgs
            \/ /\ Len(read_buf') <= Len(read_buf) - Len(MSG_TERMINATOR)
               /\ Len(log_msgs') = Len(log_msgs) + 1]_vars
    /\ (r_pc = "scan") ~> (r_pc # "scan")

\* the only read so far has yielded two records, the cursor has then moved
\* forward over the bytes left, and the inner loop has ended
C22_Witness ==
    /\ reads = 1
    /\ r_pc = "read"
    /\ Len(log_msgs) = 2
    /\ search_frm_index >= 1

====
